---- MODULE Spec2Model ----
(***************************************************************************)
(* Model of the Rollins room-reservation scraper                            *)
(* (src/rollins_room_scraper.py): the time parser, the three extraction    *)
(* strategies of parse_time_slots and the date-range loop of               *)
(* collect_date_range.                                                     *)
(*                                                                         *)
(* Representation.                                                         *)
(*  - A datetime is a number of minutes since midnight of day 0.           *)
(*  - A piece of page text is a record [kind, h, m, mer, word]: the kind   *)
(*    says which shape the characters have ("9:00 AM", "9:00AM", "14:30",  *)
(*    "9 AM", an ISO date-time, a plain word, the empty string), h, m and  *)
(*    mer are the digits and the meridiem written in it.                   *)
(*  - A reservation record keeps the columns date, start_time, end_time,   *)
(*    duration_hours (in hundredths of an hour), room_name, room_id,       *)
(*    hour_of_day and source.  The columns day_of_week, month and          *)
(*    week_of_year are functions of date alone and are left out.           *)
(***************************************************************************)
EXTENDS Integers, Sequences, FiniteSets, TLC

VARIABLES pc, start_date, end_date, current, all_records, df, trace, fetched,
          html, date, out, time_arg, parsed

\* pc           where the run stands: "loop" (the while test, line 376),
\*              "sleep" (lines 387-388), "done" (a frame was returned),
\*              "error" (an exception left collect_date_range);
\*              "extract"/"extracted" for one call of parse_time_slots
\* start_date, end_date, current, all_records   the locals of lines 370-372
\* df           the frame returned (lines 393-402)
\* trace        the calls of fetch_availability_page and time.sleep, in order
\* fetched      what each fetch returned, in order
\* html, date   the arguments of parse_time_slots; out its outcome
\* time_arg     the time_str argument of parse_time_string (date anchors it);
\*              parsed its outcome
vars == <<pc, start_date, end_date, current, all_records, df, trace, fetched,
          html, date, out, time_arg, parsed>>

\* ---------------------------------------------------------------- bounds
MaxDay == 2
MaxRows == 2
MaxItems == 2

\* ------------------------------------------------------------- constants
MinutesPerHour == 60
HoursPerDay == 24
MinutesPerDay == HoursPerDay * MinutesPerHour
SlotMinutes == 30
GridDuration == 50
MinTableRows == 3

\* ------------------------------------------------------------ sequences
RECURSIVE Flatten(_)
Flatten(ss) == IF ss = <<>> THEN <<>> ELSE Head(ss) \o Flatten(Tail(ss))

ToSet(s) == {s[i] : i \in 1..Len(s)}

\* --------------------------------------------------------------- strings
\* The keywords a string of the vocabulary contains once lower-cased
\* (Python's  keyword in s.lower()).
KeywordsIn(s) ==
    CASE s = "reserved"    -> {"reserved"}
      [] s = "Reserved"    -> {"reserved"}
      [] s = "slot booked" -> {"booked"}
      [] s = "Booked"      -> {"booked"}
      [] s = "unavailable" -> {"unavailable"}
      [] s = "occupied"    -> {"occupied"}
      [] s = "event"       -> {"event"}
      [] s = "Room 104"    -> {"room", "104"}
      [] s = "Room 211"    -> {"room", "211"}
      [] s = "Room 230"    -> {"room", "230"}
      [] OTHER             -> {}

\* Python's ordering of the room names of the vocabulary (code points).
RoomOrder == <<"", "Room 104", "Room 211", "Room 230", "Room_1", "Room_2",
               "Room_3", "Room_4", "Unknown">>

StrRank(s) == CHOOSE i \in 1..Len(RoomOrder) : RoomOrder[i] = s

\* f"Room_{col_idx}"
RoomPlaceholder(col_idx) ==
    CASE col_idx = 1 -> "Room_1"
      [] col_idx = 2 -> "Room_2"
      [] col_idx = 3 -> "Room_3"
      [] OTHER       -> "Room_4"

Upper(mer) == IF mer = "pm" THEN "PM" ELSE IF mer = "am" THEN "AM" ELSE mer

\* ------------------------------------------------------------------ text
Tok(kind, h, m, mer) == [kind |-> kind, h |-> h, m |-> m, mer |-> mer, word |-> ""]
W(word) == [kind |-> "word", h |-> 0, m |-> 0, mer |-> "", word |-> word]
EmptyText == [kind |-> "empty", h |-> 0, m |-> 0, mer |-> "", word |-> ""]

\* get_text(strip=True) of a cell that holds a plain word
TextStr(text) == text.word

\* ------------------------------------------------------------- datetimes
DateTime(day, h, m) == day * MinutesPerDay + h * MinutesPerHour + m

\* datetime.replace(hour=, minute=, second=0, microsecond=0) raises
\* ValueError when the hour or the minute is out of range.
ReplaceRaises(h, m) == ~(h \in 0..(HoursPerDay - 1) /\ m \in 0..(MinutesPerHour - 1))

Replace(dt, h, m) == DateTime(dt \div MinutesPerDay, h, m)

\* strftime("%Y-%m-%d"), strftime("%H:%M") and .hour
FormatDate(dt) == dt \div MinutesPerDay
FormatHM(dt) == dt % MinutesPerDay
HourOf(dt) == (dt % MinutesPerDay) \div MinutesPerHour

\* timedelta.seconds / 3600, rounded to two places (hundredths of an hour):
\* .seconds is the difference modulo one day, never negative.
TimedeltaSeconds(end_dt, start_dt) == (end_dt - start_dt) % MinutesPerDay
RoundHours(minutes) == (minutes * 10 + 3) \div 6

\* ------------------------------------------------------ parse_time_string
\* One strptime format applied to a text: <<hour, minute>> in a one-element
\* sequence when the format matches, <<>> when strptime raises ValueError.
\* %I takes 1..12, %H takes 0..23, %M takes 0..59, %p takes AM or PM in
\* either case; a space in the format needs white space in the text.
\* The 12-hour conversion without the wrap of 12: "12:30 PM" becomes 24:30
\* and "12:30 AM" stays 12:30.
Hour12NoWrap(h, mer) == IF Upper(mer) = "PM" THEN h + 12 ELSE h

Hour12(h, mer) == IF Upper(mer) = "PM" THEN (h % 12) + 12 ELSE h % 12

Strptime(text, fmt) ==
    CASE fmt = "%I:%M %p" ->
           IF text.kind = "hm_sp_mer" /\ text.h \in 1..12 /\ text.m \in 0..59
           THEN << <<Hour12(text.h, text.mer), text.m>> >> ELSE <<>>
      [] fmt = "%I:%M%p" ->
           IF text.kind = "hm_mer" /\ text.h \in 1..12 /\ text.m \in 0..59
           THEN << <<Hour12(text.h, text.mer), text.m>> >> ELSE <<>>
      [] fmt = "%H:%M" ->
           IF text.kind = "hm" /\ text.h \in 0..23 /\ text.m \in 0..59
           THEN << <<text.h, text.m>> >> ELSE <<>>
      [] fmt = "%I %p" ->
           IF text.kind = "h_mer" /\ text.h \in 1..12
           THEN << <<Hour12(text.h, text.mer), 0>> >> ELSE <<>>
      [] fmt = "%Y-%m-%dT%H:%M:%S" ->
           IF text.kind = "iso_T" /\ text.h \in 0..23 /\ text.m \in 0..59
           THEN << <<text.h, text.m>> >> ELSE <<>>
      [] fmt = "%Y-%m-%d %H:%M:%S" ->
           IF text.kind = "iso_sp" /\ text.h \in 0..23 /\ text.m \in 0..59
           THEN << <<text.h, text.m>> >> ELSE <<>>
      [] OTHER -> <<>>

formats == <<"%I:%M %p", "%I:%M%p", "%H:%M", "%I %p",
             "%Y-%m-%dT%H:%M:%S", "%Y-%m-%d %H:%M:%S">>

\* The first format that parses decides; [ok |-> FALSE] is the ValueError.
RECURSIVE TryFormats(_, _, _)
TryFormats(text, base_date, i) ==
    IF i > Len(formats) THEN [ok |-> FALSE, dt |-> 0]
    ELSE LET t == Strptime(text, formats[i])
         IN  IF t # <<>>
             THEN [ok |-> TRUE, dt |-> Replace(base_date, t[1][1], t[1][2])]
             ELSE TryFormats(text, base_date, i + 1)

parse_time_string(time_str, base_date) == TryFormats(time_str, base_date, 1)

\* ---------------------------------------------------------------- records
Record(dt, start_dt, end_dt, duration, room_name, room_id, hour, source) ==
    [date |-> FormatDate(dt), start_time |-> FormatHM(start_dt),
     end_time |-> FormatHM(end_dt), duration_hours |-> duration,
     room_name |-> room_name, room_id |-> room_id, hour_of_day |-> hour,
     source |-> source]

\* ------------------------------------------------- strategy 1: grid table
\* A table is a sequence of rows, a row a sequence of cells, a cell
\* [text, class].
room_keywords == {"room", "104", "211", "230", "311", "319", "grover", "lakeview"}
class_keywords == {"reserved", "booked", "unavailable", "occupied", "event"}
text_keywords == {"reserved", "booked", "unavailable"}

Headers(table) == [i \in 1..Len(table[1]) |-> TextStr(table[1][i].text)]

\* len(rows) >= 3 and the header row names a room
TableQualifies(table) ==
    /\ Len(table) >= MinTableRows
    /\ \E i \in 1..Len(table[1]) :
          KeywordsIn(TextStr(table[1][i].text)) \cap room_keywords # {}

\* re.match(r"(\d{1,2}):(\d{2})\s*(AM|PM)?", time_text, re.IGNORECASE)
TimeMatch(text) == text.kind \in {"hm_sp_mer", "hm_mer", "hm"}

GridHour(text) ==
    IF text.mer # "" /\ Upper(text.mer) = "PM" /\ text.h # 12 THEN text.h + 12
    ELSE IF text.mer # "" /\ Upper(text.mer) = "AM" /\ text.h = 12 THEN 0
    ELSE text.h

\* A row that reaches date.replace
RowParsed(row) == row # <<>> /\ TimeMatch(row[1].text)

RowRaises(row) == RowParsed(row) /\ ReplaceRaises(GridHour(row[1].text), row[1].text.m)

\* One keyword list used for the class and for the text alike
IsReservedOneList(cell) ==
    \/ KeywordsIn(cell.class) \cap class_keywords # {}
    \/ KeywordsIn(TextStr(cell.text)) \cap class_keywords # {}

IsReserved(cell) ==
    \/ KeywordsIn(cell.class) \cap class_keywords # {}
    \/ KeywordsIn(TextStr(cell.text)) \cap text_keywords # {}

ColName(headers, col_idx) ==
    IF col_idx < Len(headers) THEN headers[col_idx + 1] ELSE RoomPlaceholder(col_idx)

GridRecord(dt, slot_time, hour, col_name) ==
    Record(dt, slot_time, slot_time + SlotMinutes, GridDuration,
           col_name, col_name, hour, "grid_table")

RowRecords(row, headers, dt) ==
    IF ~RowParsed(row) THEN <<>>
    ELSE LET hour == GridHour(row[1].text)
             slot_time == Replace(dt, hour, row[1].text.m)
             cols == SelectSeq([i \in 1..(Len(row) - 1) |-> i],
                               LAMBDA c : IsReserved(row[c + 1]))
         IN  [k \in 1..Len(cols) |->
                 GridRecord(dt, slot_time, hour, ColName(headers, cols[k]))]

TableRaises(table) ==
    TableQualifies(table) /\ \E r \in 2..Len(table) : RowRaises(table[r])

TableRecords(table, dt) ==
    IF ~TableQualifies(table) THEN <<>>
    ELSE Flatten([r \in 1..(Len(table) - 1) |->
                     RowRecords(table[r + 1], Headers(table), dt)])

GridRaises(page) == \E t \in 1..Len(page.tables) : TableRaises(page.tables[t])

GridRecords(page, dt) ==
    Flatten([t \in 1..Len(page.tables) |-> TableRecords(page.tables[t], dt)])


\* --------------------------------------------- strategy 2: embedded JSON
\* A script block is [valid, items]: valid says whether json.loads accepts
\* the bracketed text; an item is [isdict, obj], obj a function from the
\* keys present to their values (a text for a time, a string for a room).
time_keys == <<"startTime", "start_time", "StartTime", "start", "Begin", "beginTime">>
end_keys == <<"endTime", "end_time", "EndTime", "end", "End", "endTime">>
room_keys == <<"roomName", "room_name", "RoomName", "room", "Room", "location">>

\* next((item[k] for k in keys if k in item), default)
\* The synonym lists read from the wrong end: the last key present decides
RECURSIVE LastPresentFrom(_, _, _, _)
LastPresentFrom(item, keys, i, default) ==
    IF i < 1 THEN default
    ELSE IF keys[i] \in DOMAIN item THEN item[keys[i]]
    ELSE LastPresentFrom(item, keys, i - 1, default)

LastPresent(item, keys, i, default) == LastPresentFrom(item, keys, Len(keys), default)

RECURSIVE FirstPresent(_, _, _, _)
FirstPresent(item, keys, i, default) ==
    IF i > Len(keys) THEN default
    ELSE IF keys[i] \in DOMAIN item THEN item[keys[i]]
    ELSE FirstPresent(item, keys, i + 1, default)

\* Python truth of a time value: None and "" are false
Truthy(val) == val.kind # "empty"

\* str(item.get("roomId", item.get("room_id", "")))
ItemRoomId(item) ==
    IF "roomId" \in DOMAIN item THEN item["roomId"]
    ELSE IF "room_id" \in DOMAIN item THEN item["room_id"] ELSE ""

\* The record in a one-element sequence, <<>> for None.
extract_from_json_item(item, dt) ==
    LET start_val == FirstPresent(item, time_keys, 1, EmptyText)
        end_val == FirstPresent(item, end_keys, 1, EmptyText)
        room_val == FirstPresent(item, room_keys, 1, "Unknown")
    IN  IF ~Truthy(start_val) THEN <<>>
        ELSE LET start == parse_time_string(start_val, dt)
                 end == IF Truthy(end_val) THEN parse_time_string(end_val, dt)
                        ELSE [ok |-> start.ok, dt |-> start.dt + MinutesPerHour]
             IN  IF ~start.ok \/ ~end.ok THEN <<>>
                 ELSE << Record(dt, start.dt, end.dt,
                                RoundHours(TimedeltaSeconds(end.dt, start.dt)),
                                room_val, ItemRoomId(item), HourOf(start.dt),
                                "json_embed") >>

BlockRecords(block, dt) ==
    IF ~block.valid THEN <<>>
    ELSE Flatten([i \in 1..Len(block.items) |->
                     IF block.items[i].isdict
                     THEN extract_from_json_item(block.items[i].obj, dt)
                     ELSE <<>>])

JsonRecords(page, dt) ==
    Flatten([b \in 1..Len(page.scripts) |-> BlockRecords(page.scripts[b], dt)])

\* ------------------------------------------- strategy 3: page elements
\* An element is [cls, dtype, range, textRoom, dataRoom]: cls and dtype say
\* whether its class and its data-type attribute match the two selectors;
\* range is <<>> or one pair of texts around a "-", "to" separator;
\* textRoom is <<>> or the room the text names; dataRoom is <<>> or the
\* value of the data-room attribute.
TimePattern(element) ==
    /\ element.range # <<>>
    /\ TimeMatch(element.range[1][1])
    /\ TimeMatch(element.range[1][2])

ElementRoom(element) ==
    IF element.textRoom # <<>> THEN element.textRoom[1]
    ELSE IF element.dataRoom # <<>> THEN element.dataRoom[1] ELSE "Unknown"

extract_from_element(element, dt) ==
    IF ~TimePattern(element) THEN <<>>
    ELSE LET start == parse_time_string(element.range[1][1], dt)
             end == parse_time_string(element.range[1][2], dt)
         IN  IF ~start.ok \/ ~end.ok THEN <<>>
             ELSE << Record(dt, start.dt, end.dt,
                            RoundHours(TimedeltaSeconds(end.dt, start.dt)),
                            ElementRoom(element), "", HourOf(start.dt),
                            "html_element") >>

\* soup.find_all(attrs=selector) for the two selectors in turn
Selected(page, selector) ==
    SelectSeq(page.elements,
              LAMBDA e : IF selector = 1 THEN e.cls ELSE e.dtype)

ElementRecords(page, dt) ==
    Flatten([sel \in 1..2 |->
        LET found == Selected(page, sel)
        IN  Flatten([i \in 1..Len(found) |-> extract_from_element(found[i], dt)])])

\* --------------------------------------------------------- parse_time_slots
\* [raised, records]: raised is the ValueError of date.replace leaving the
\* function; no record is returned then.
parse_time_slots(page, dt) ==
    IF page.empty THEN [raised |-> FALSE, records |-> <<>>]
    ELSE IF GridRaises(page) THEN [raised |-> TRUE, records |-> <<>>]
    ELSE [raised |-> FALSE,
          records |-> GridRecords(page, dt) \o JsonRecords(page, dt)
                      \o ElementRecords(page, dt)]


\* ------------------------------------------------------------- the inputs
NoContent == [empty |-> TRUE, tables |-> <<>>, scripts |-> <<>>, elements |-> <<>>]

Page(tables, scripts, elements) ==
    [empty |-> FALSE, tables |-> tables, scripts |-> scripts, elements |-> elements]

Cell(text, class) == [text |-> text, class |-> class]

T_0900am == Tok("hm_sp_mer", 9, 0, "AM")
T_0930am == Tok("hm_sp_mer", 9, 30, "AM")
T_1200am == Tok("hm_sp_mer", 12, 0, "AM")
T_0100pm == Tok("hm_mer", 1, 0, "pm")
T_1300pm == Tok("hm_sp_mer", 13, 0, "PM")
T_1000 == Tok("hm", 10, 0, "")
T_1100 == Tok("hm", 11, 0, "")
T_1430 == Tok("hm", 14, 30, "")
T_2345 == Tok("hm", 23, 45, "")
T_2500 == Tok("hm", 25, 0, "")
T_0975 == Tok("hm", 9, 75, "")
T_9am == Tok("h_mer", 9, 0, "AM")
T_iso == Tok("iso_T", 14, 30, "")

RowLabels == {T_0900am, T_1200am, T_0100pm, T_1300pm, T_1430, T_2345, T_2500,
              T_0975, T_9am, T_iso, W("Total")}

SlotCells == {Cell(W(""), ""), Cell(W(""), "reserved"), Cell(W(""), "Reserved"),
              Cell(W("occupied"), ""), Cell(W("Booked"), "")}

HeaderRows == { <<Cell(W("Time"), ""), Cell(W("Room 104"), ""), Cell(W("Room 211"), "")>>,
                <<Cell(W("Time"), ""), Cell(W("Name"), ""), Cell(W("Notes"), "")>>,
                <<Cell(W("Time"), ""), Cell(W("Room 104"), "")>>,
                <<Cell(W("Time"), ""), Cell(W(""), ""), Cell(W("Room 211"), "")>> }

SlotSeqs == {<<a, b>> : a \in SlotCells, b \in SlotCells}
              \cup {<<a>> : a \in SlotCells}

FocusRows == {<<Cell(l, "")>> \o ss : l \in RowLabels, ss \in SlotSeqs} \cup {<<>>}

FillerRows == { <<Cell(T_0930am, ""), Cell(W(""), "reserved"), Cell(W(""), "")>>,
                <<Cell(W("Total"), ""), Cell(W(""), "event"), Cell(W(""), "")>>,
                <<Cell(T_1000, ""), Cell(W(""), ""), Cell(W("unavailable"), "")>> }

SeqsUpTo(S, n) == UNION {[1..k -> S] : k \in 0..n}

\* One table: a header row, a row under study and up to MaxRows - 1 more
GridPages ==
    {Page(<< <<h, r>> \o rest >>, <<>>, <<>>) :
        h \in HeaderRows, r \in FocusRows, rest \in SeqsUpTo(FillerRows, MaxRows - 1)}

EmptyFn == [k \in {} |-> 0]

StartParts == {EmptyFn}
    \cup {"startTime" :> t : t \in {T_1000, T_0900am, T_0100pm, T_9am, T_iso, T_2500, EmptyText}}
    \cup {"start" :> t : t \in {T_1000, T_1430}}
    \cup {("startTime" :> T_1000) @@ ("start_time" :> T_1430),
          ("start" :> T_1000) @@ ("StartTime" :> T_1430)}

EndParts == {EmptyFn}
    \cup {"endTime" :> t : t \in {T_1100, T_1000, T_0900am, T_2500, EmptyText}}
    \cup {"end" :> T_1100, ("end_time" :> T_1100) @@ ("End" :> T_1430)}

RoomParts == {EmptyFn, "roomName" :> "Room 230", "roomName" :> "",
              "room" :> "Room 104", ("room_name" :> "Room 211") @@ ("location" :> "Room 104")}

RoomIdParts == {EmptyFn, "roomId" :> "230", "room_id" :> "104"}

FocusItems ==
    {[isdict |-> TRUE, obj |-> s @@ e @@ r @@ i] :
        s \in StartParts, e \in EndParts, r \in RoomParts, i \in RoomIdParts}
    \cup {[isdict |-> FALSE, obj |-> EmptyFn]}

FillerItems == {[isdict |-> TRUE, obj |-> ("startTime" :> T_0900am) @@ ("roomName" :> "Room 104")],
                [isdict |-> TRUE, obj |-> "roomName" :> "Room 230"]}

JsonPages ==
    {Page(<<>>, << [valid |-> v, items |-> <<it>> \o rest] >>, <<>>) :
        v \in BOOLEAN, it \in FocusItems, rest \in SeqsUpTo(FillerItems, MaxItems - 1)}

RangeTexts == {T_0900am, T_0100pm, T_1000, T_1100, T_2500, T_1300pm}

Ranges == {<<>>, << <<T_9am, T_9am>> >>} \cup {<< <<a, b>> >> : a \in RangeTexts, b \in RangeTexts}

Element(cls, dtype, range, textRoom, dataRoom) ==
    [cls |-> cls, dtype |-> dtype, range |-> range, textRoom |-> textRoom,
     dataRoom |-> dataRoom]

FocusElements ==
    {Element(c, d, rg, tr, dr) :
        c \in BOOLEAN, d \in BOOLEAN, rg \in Ranges,
        tr \in {<<>>, <<"Room 104">>}, dr \in {<<>>, <<"">>, <<"Room 211">>}}

FillerElements == {Element(TRUE, FALSE, << <<T_1000, T_1100>> >>, <<"Room 104">>, <<>>),
                   Element(FALSE, TRUE, <<>>, <<>>, <<>>)}

ElementPages ==
    {Page(<<>>, <<>>, <<e>> \o rest) :
        e \in FocusElements, rest \in SeqsUpTo(FillerElements, 1)}

\* Pages the date-range loop is fed with
GoodRow(label, c1, c2) == <<Cell(label, ""), Cell(W(""), c1), Cell(W(""), c2)>>
RoomHeader == <<Cell(W("Time"), ""), Cell(W("Room 104"), ""), Cell(W("Room 211"), "")>>
Item1000 == [isdict |-> TRUE,
             obj |-> ("startTime" :> T_1000) @@ ("endTime" :> T_1100)
                     @@ ("roomName" :> "Room 104")]

P_grid == Page(<< <<RoomHeader, GoodRow(T_1430, "", "reserved"),
                    GoodRow(T_0900am, "reserved", "booked")>> >>, <<>>, <<>>)
P_raise == Page(<< <<RoomHeader, GoodRow(T_0900am, "reserved", ""),
                     GoodRow(T_2500, "", "")>> >>, <<>>, <<>>)
P_json == Page(<<>>, << [valid |-> TRUE, items |-> <<Item1000>>] >>, <<>>)
P_both == Page(<<>>, << [valid |-> TRUE, items |-> <<Item1000>>] >>,
               << Element(TRUE, TRUE, << <<T_1000, T_1100>> >>, <<"Room 104">>, <<>>) >>)
P_none == Page(<<>>, <<>>, << Element(TRUE, FALSE, <<>>, <<>>, <<>>) >>)

P_elems == Page(<<>>, <<>>,
                << Element(TRUE, FALSE, << <<T_1100, T_1000>> >>, <<>>, <<>>),
                   Element(FALSE, TRUE, << <<T_0900am, T_1000>> >>, <<>>, <<"">>) >>)

CollectPages == {P_grid, P_raise, P_json, P_both, P_none, P_elems}

ExtractPages == GridPages \cup JsonPages \cup ElementPages \cup CollectPages


\* ------------------------------------------------------- the final frame
\* DataFrame.drop_duplicates(): a row is dropped when an earlier row is
\* equal to it in every column.
drop_duplicates(rows) ==
    LET keep == SelectSeq([i \in 1..Len(rows) |-> i],
                          LAMBDA i : \A j \in 1..(i - 1) : rows[j] # rows[i])
    IN  [k \in 1..Len(keep) |-> rows[keep[k]]]

\* The sort key ["date", "room_name", "start_time"], compared as Python
\* compares the column values.
KeyLess(a, b) ==
    \/ a.date < b.date
    \/ a.date = b.date /\ StrRank(a.room_name) < StrRank(b.room_name)
    \/ a.date = b.date /\ a.room_name = b.room_name /\ a.start_time < b.start_time

RECURSIVE Insert(_, _)
Insert(sorted, r) ==
    IF sorted = <<>> THEN <<r>>
    ELSE IF KeyLess(r, Head(sorted)) THEN <<r>> \o sorted
    ELSE <<Head(sorted)>> \o Insert(Tail(sorted), r)

\* A sort that forgets the room and the start time: sort_values(["date"])
RECURSIVE InsertByDate(_, _)
InsertByDate(sorted, r) ==
    IF sorted = <<>> THEN <<r>>
    ELSE IF r.date < Head(sorted).date THEN <<r>> \o sorted
    ELSE <<Head(sorted)>> \o InsertByDate(Tail(sorted), r)

RECURSIVE sort_values_by_date(_)
sort_values_by_date(rows) ==
    IF rows = <<>> THEN <<>>
    ELSE InsertByDate(sort_values_by_date(SubSeq(rows, 1, Len(rows) - 1)),
                      rows[Len(rows)])

\* DataFrame.sort_values([...]).reset_index(drop=True): rows equal on the
\* key keep their order.
RECURSIVE sort_values(_)
sort_values(rows) ==
    IF rows = <<>> THEN <<>>
    ELSE Insert(sort_values(SubSeq(rows, 1, Len(rows) - 1)), rows[Len(rows)])

FinalFrame(records) ==
    IF records = <<>> THEN <<>> ELSE sort_values(drop_duplicates(records))

\* ------------------------------------------------------ collect_date_range
Midnight(day) == DateTime(day, 0, 0)

\* The state after one day's fetch and extraction (lines 379-385)
AfterFetch(page) ==
    LET res == parse_time_slots(page, Midnight(current))
    IN  IF page.empty THEN pc' = "sleep" /\ all_records' = all_records
        ELSE IF res.raised THEN pc' = "error" /\ all_records' = all_records
        ELSE pc' = "sleep" /\ all_records' = all_records \o res.records

\* The loop with the pause placed in the branch that found content only:
\* a day without content goes straight on to the next day.
FetchPauseOnContentOnly ==
    /\ pc = "loop"
    /\ current <= end_date
    /\ \E page \in CollectPages \cup {NoContent} :
          /\ IF page.empty
             THEN pc' = "loop" /\ all_records' = all_records /\ current' = current + 1
             ELSE AfterFetch(page) /\ current' = current
          /\ html' = page
          /\ fetched' = Append(fetched, [day |-> current, page |-> page])
          /\ trace' = Append(trace, [op |-> "fetch", day |-> current])
    /\ UNCHANGED <<start_date, end_date, df, date, out, time_arg, parsed>>

\* The loop written as do ... while: the first day is fetched before the
\* range is tested.
FetchBeforeTest ==
    /\ pc = "loop"
    /\ current <= end_date \/ fetched = <<>>
    /\ \E page \in CollectPages \cup {NoContent} :
          /\ AfterFetch(page)
          /\ html' = page
          /\ fetched' = Append(fetched, [day |-> current, page |-> page])
          /\ trace' = Append(trace, [op |-> "fetch", day |-> current])
    /\ UNCHANGED <<start_date, end_date, current, df, date, out, time_arg, parsed>>

Fetch ==
    /\ pc = "loop"
    /\ current <= end_date
    /\ \E page \in CollectPages \cup {NoContent} :
          /\ AfterFetch(page)
          /\ html' = page
          /\ fetched' = Append(fetched, [day |-> current, page |-> page])
          /\ trace' = Append(trace, [op |-> "fetch", day |-> current])
    /\ UNCHANGED <<start_date, end_date, current, df, date, out, time_arg, parsed>>

Sleep ==
    /\ pc = "sleep"
    /\ current' = current + 1
    /\ trace' = Append(trace, [op |-> "sleep", day |-> current])
    /\ pc' = "loop"
    /\ UNCHANGED <<start_date, end_date, all_records, df, fetched, html, date, out, time_arg, parsed>>

Finish ==
    /\ pc = "loop"
    /\ current > end_date
    /\ df' = FinalFrame(all_records)
    /\ pc' = "done"
    /\ UNCHANGED <<start_date, end_date, current, all_records, trace, fetched,
                   html, date, out, time_arg, parsed>>

Init ==
    /\ pc = "loop"
    /\ start_date \in 0..MaxDay
    /\ end_date \in 0..MaxDay
    /\ current = start_date
    /\ all_records = <<>>
    /\ df = <<>>
    /\ trace = <<>>
    /\ fetched = <<>>
    /\ html = NoContent
    /\ date = 0
    /\ out = [raised |-> FALSE, records |-> <<>>]
    /\ time_arg = EmptyText
    /\ parsed = [ok |-> FALSE, dt |-> 0]

Next == Fetch \/ Sleep \/ Finish

Spec == Init /\ [][Next]_vars

\* ------------------------------------------- parse_time_slots on one page
ExtractInit ==
    /\ pc = "extract"
    /\ html \in ExtractPages
    /\ date \in 0..MaxDay
    /\ out = [raised |-> FALSE, records |-> <<>>]
    /\ start_date = 0
    /\ end_date = 0
    /\ current = 0
    /\ all_records = <<>>
    /\ df = <<>>
    /\ trace = <<>>
    /\ fetched = <<>>
    /\ time_arg = EmptyText
    /\ parsed = [ok |-> FALSE, dt |-> 0]

Extract ==
    /\ pc = "extract"
    /\ out' = parse_time_slots(html, Midnight(date))
    /\ pc' = "extracted"
    /\ UNCHANGED <<start_date, end_date, current, all_records, df, trace,
                   fetched, html, date, time_arg, parsed>>

ExtractNext == Extract

ExtractSpec == ExtractInit /\ [][ExtractNext]_vars


\* --------------------------------------------- parse_time_string on a text
TimeTexts ==
    {Tok(k, h, m, mer) : k \in {"hm_sp_mer", "hm_mer"}, h \in 0..25,
                         m \in {0, 5, 30, 59, 75}, mer \in {"AM", "PM", "am", "pm"}}
    \cup {Tok(k, h, m, "") : k \in {"hm", "iso_T", "iso_sp"}, h \in 0..25,
                             m \in {0, 5, 30, 59, 75}}
    \cup {Tok("h_mer", h, 0, mer) : h \in 0..25, mer \in {"AM", "PM", "am", "pm"}}
    \cup {W("noon"), EmptyText}

TimeInit ==
    /\ pc = "parse"
    /\ time_arg \in TimeTexts
    /\ date \in 0..MaxDay
    /\ parsed = [ok |-> FALSE, dt |-> 0]
    /\ html = NoContent
    /\ out = [raised |-> FALSE, records |-> <<>>]
    /\ start_date = 0
    /\ end_date = 0
    /\ current = 0
    /\ all_records = <<>>
    /\ df = <<>>
    /\ trace = <<>>
    /\ fetched = <<>>

ParseTime ==
    /\ pc = "parse"
    /\ parsed' = parse_time_string(time_arg, Midnight(date))
    /\ pc' = "parsed"
    /\ UNCHANGED <<start_date, end_date, current, all_records, df, trace,
                   fetched, html, date, out, time_arg>>

TimeNext == ParseTime

TimeSpec == TimeInit /\ [][TimeNext]_vars

\* ================================================================ claims
FetchDays == [i \in 1..Len(fetched) |-> fetched[i].day]

RangeDays == [i \in 1..(end_date - start_date + 1) |-> start_date + i - 1]

Ended == pc \in {"done", "error"}

\* C1: for a range with start <= end, a collection that has ended has
\* invoked fetch exactly once for every day from start to end, in ascending
\* order, and for no other day.
C1_FetchEveryDayOnce ==
    (Ended /\ start_date <= end_date) => FetchDays = RangeDays

\* C2: every fetch is followed by exactly one pause before the next fetch,
\* whether it returned content or not; no two fetches are adjacent, no two
\* pauses are adjacent, and a fetch still waiting for its pause is the one
\* in progress.
C2_PauseAfterEveryFetch ==
    /\ \A i \in 1..Len(trace) :
          /\ trace[i].op = "fetch" <=> i % 2 = 1
          /\ trace[i].op = "sleep" => trace[i].day = trace[i - 1].day
    /\ pc \in {"loop", "done"} => Len(trace) % 2 = 0
    /\ pc \in {"sleep", "error"} => Len(trace) % 2 = 1
    /\ Len(fetched) = Cardinality({i \in 1..Len(trace) : trace[i].op = "fetch"})

C2_Witness ==
    /\ pc = "done"
    /\ \E i, j \in 1..Len(fetched) :
          i < j /\ fetched[i].page.empty /\ ~fetched[j].page.empty
    /\ \E i, j \in 1..Len(fetched) :
          i < j /\ ~fetched[i].page.empty /\ fetched[j].page.empty

\* C3: a day without content raises no error and does not abort the
\* collection: once some day has returned nothing the collection still does
\* not end in an error, and the dataset it returns holds exactly the
\* records extracted from the days that returned content.
ExtractedFromContentDays ==
    UNION {ToSet(parse_time_slots(fetched[i].page, Midnight(fetched[i].day)).records) :
              i \in {k \in 1..Len(fetched) : ~fetched[k].page.empty}}

C3_NoContentDayDoesNotAbort ==
    (\E i \in 1..Len(fetched) : fetched[i].page.empty) =>
        /\ pc # "error"
        /\ pc = "done" => FetchDays = RangeDays /\ ToSet(df) = ExtractedFromContentDays

\* C4: the returned dataset never holds two records equal on date,
\* roomName, start and end.
SameSlot(a, b) ==
    /\ a.date = b.date
    /\ a.room_name = b.room_name
    /\ a.start_time = b.start_time
    /\ a.end_time = b.end_time

C4_NoTwoRecordsOfOneSlot ==
    pc = "done" => \A i, j \in 1..Len(df) : i < j => ~SameSlot(df[i], df[j])

\* C5: the returned dataset is sorted non-decreasingly by
\* (date, roomName, start).
KeyLeq(a, b) ==
    \/ a.date < b.date
    \/ a.date = b.date /\ StrRank(a.room_name) < StrRank(b.room_name)
    \/ a.date = b.date /\ a.room_name = b.room_name /\ a.start_time <= b.start_time

C5_DatasetSorted ==
    pc = "done" => \A i \in 1..(Len(df) - 1) : KeyLeq(df[i], df[i + 1])

C5_Witness ==
    /\ pc = "done"
    /\ Len(df) >= 3
    /\ \E i \in 1..(Len(all_records) - 1) : ~KeyLeq(all_records[i], all_records[i + 1])
    /\ \E i \in 1..(Len(df) - 1) :
          df[i].date = df[i + 1].date /\ df[i].room_name # df[i + 1].room_name

C7_ExtractNeverFails == pc = "extracted" => ~out.raised

\* C8: for a page with one table whose header row holds a room keyword and
\* which has at least one data row, every data row with a parsable time
\* label yields exactly one grid_table record per reserved room column,
\* from the row's time to 30 minutes later, named after the column header
\* (stated here for the pages on which the extraction returns).
LabelParsable(row) ==
    /\ row # <<>>
    /\ TimeMatch(row[1].text)
    /\ ~ReplaceRaises(GridHour(row[1].text), row[1].text.m)

ExpectedSlots(table) ==
    {<<r, c>> \in (2..Len(table)) \X (1..3) :
        /\ LabelParsable(table[r])
        /\ c + 1 <= Len(table[r])
        /\ IsReserved(table[r][c + 1])}

SlotRecord(table, r, c, day) ==
    LET start == GridHour(table[r][1].text) * MinutesPerHour + table[r][1].text.m
    IN  [date |-> day, start_time |-> start,
         end_time |-> (start + SlotMinutes) % MinutesPerDay,
         duration_hours |-> GridDuration,
         room_name |-> ColName(Headers(table), c),
         room_id |-> ColName(Headers(table), c),
         hour_of_day |-> start \div MinutesPerHour, source |-> "grid_table"]

GridOut == SelectSeq(out.records, LAMBDA r : r.source = "grid_table")

OneRoomTable ==
    /\ ~html.empty
    /\ Len(html.tables) = 1
    /\ Len(html.tables[1]) >= 2
    /\ \E i \in 1..Len(html.tables[1][1]) :
          KeywordsIn(html.tables[1][1][i].text.word) \cap room_keywords # {}

C8_EveryDataRowYieldsItsSlots ==
    (pc = "extracted" /\ OneRoomTable /\ ~out.raised) =>
        /\ Len(GridOut) = Cardinality(ExpectedSlots(html.tables[1]))
        /\ \A s \in ExpectedSlots(html.tables[1]) :
              \E k \in 1..Len(GridOut) :
                  GridOut[k] = SlotRecord(html.tables[1], s[1], s[2], date)

\* C9: no record has an end that is not after its start, or a duration
\* that is not positive.
C9_EndAfterStart ==
    pc = "extracted" =>
        \A k \in 1..Len(out.records) :
            /\ out.records[k].end_time > out.records[k].start_time
            /\ out.records[k].duration_hours > 0

\* C10: every record has a non-empty roomName.
C10_RoomNameNeverEmpty ==
    pc = "extracted" => \A k \in 1..Len(out.records) : out.records[k].room_name # ""


\* C11: whichever supported format writes a time of day H:M (12-hour with
\* meridiem, with or without a space and in either case, 24-hour, bare
\* hour with meridiem for M = 0, ISO date-time with T or a space), the
\* parse succeeds and gives hour H and minute M on the anchoring day.
Written(kind, H, M, lower) ==
    LET h12 == IF H % 12 = 0 THEN 12 ELSE H % 12
        mer == IF H < 12 THEN (IF lower THEN "am" ELSE "AM")
               ELSE (IF lower THEN "pm" ELSE "PM")
    IN  CASE kind \in {"hm_sp_mer", "hm_mer"} -> Tok(kind, h12, M, mer)
          [] kind = "h_mer" -> Tok(kind, h12, 0, mer)
          [] OTHER -> Tok(kind, H, M, "")

WrittenKinds(M) ==
    {"hm_sp_mer", "hm_mer", "hm", "iso_T", "iso_sp"}
        \cup (IF M = 0 THEN {"h_mer"} ELSE {})

C11_SameTimeWhateverFormat ==
    pc = "parsed" =>
        \A H \in 0..23, lower \in BOOLEAN :
            \A kind \in WrittenKinds(time_arg.m) :
                (time_arg.m \in 0..59 /\ time_arg = Written(kind, H, time_arg.m, lower)) =>
                    /\ parsed.ok
                    /\ parsed.dt = date * MinutesPerDay + H * MinutesPerHour + time_arg.m

C11_Witness ==
    /\ pc = "parsed"
    /\ time_arg = Tok("hm_mer", 2, 30, "pm")
    /\ parsed.ok
    /\ parsed.dt = date * MinutesPerDay + 14 * MinutesPerHour + 30


\* A page with one table that the grid strategy reads to the end
GridTableRead ==
    /\ pc = "extracted"
    /\ ~html.empty
    /\ ~out.raised
    /\ Len(html.tables) = 1
    /\ TableQualifies(html.tables[1])

\* The slot of row r, column c of the table has a grid_table record
SlotHasRecord(table, r, c) ==
    \E k \in 1..Len(GridOut) :
        /\ GridOut[k].start_time
              = GridHour(table[r][1].text) * MinutesPerHour + table[r][1].text.m
        /\ GridOut[k].room_name = ColName(Headers(table), c)

FiveKeywords == {"reserved", "booked", "unavailable", "occupied", "event"}
ThreeKeywords == {"reserved", "booked", "unavailable"}

\* C12 as stated: a slot is reserved if and only if its class or its text
\* contains, in any case, one of the five keywords.
C12_FiveKeywordsForClassAndText ==
    GridTableRead =>
        \A r \in 2..Len(html.tables[1]) :
            LabelParsable(html.tables[1][r]) =>
                \A c \in 1..(Len(html.tables[1][r]) - 1) :
                    SlotHasRecord(html.tables[1], r, c) <=>
                        \/ KeywordsIn(html.tables[1][r][c + 1].class) \cap FiveKeywords # {}
                        \/ KeywordsIn(html.tables[1][r][c + 1].text.word) \cap FiveKeywords # {}

\* C12 as amended: a slot is reserved if and only if its class contains, in
\* any case, one of the five keywords, or its text contains, in any case,
\* one of reserved, booked, unavailable.
C12_FiveForClassThreeForText ==
    GridTableRead =>
        \A r \in 2..Len(html.tables[1]) :
            LabelParsable(html.tables[1][r]) =>
                \A c \in 1..(Len(html.tables[1][r]) - 1) :
                    SlotHasRecord(html.tables[1], r, c) <=>
                        \/ KeywordsIn(html.tables[1][r][c + 1].class) \cap FiveKeywords # {}
                        \/ KeywordsIn(html.tables[1][r][c + 1].text.word) \cap ThreeKeywords # {}

\* A table read to the end with a slot of class "Reserved" that has a
\* record and a slot of text "occupied" that has none
C12_Witness ==
    /\ GridTableRead
    /\ \E r \in 2..Len(html.tables[1]) :
          /\ LabelParsable(html.tables[1][r])
          /\ Len(html.tables[1][r]) = 3
          /\ html.tables[1][r][2].class = "Reserved"
          /\ SlotHasRecord(html.tables[1], r, 1)
          /\ html.tables[1][r][3].text.word = "occupied"
          /\ ~SlotHasRecord(html.tables[1], r, 2)


\* C13: in every record roomId is the 3-digit room number found in
\* roomName when there is one, and roomName itself otherwise.
ThreeDigitToken(name) ==
    CASE name = "Room 104" -> "104"
      [] name = "Room 211" -> "211"
      [] name = "Room 230" -> "230"
      [] OTHER -> name

C13_RoomIdFromRoomName ==
    pc = "extracted" =>
        \A k \in 1..Len(out.records) :
            out.records[k].room_id = ThreeDigitToken(out.records[k].room_name)

\* C14: in the embedded-data strategy an object with none of the start
\* keys yields no record; an object with a parsable start and no end key
\* yields exactly one record, ending one hour after its start with
\* durationHours 1.0; start, end and room are the values of the first key
\* present in each synonym list.
JsonOut == SelectSeq(out.records, LAMBDA r : r.source = "json_embed")

StartKeys == <<"startTime", "start_time", "StartTime", "start", "Begin", "beginTime">>
EndKeys == <<"endTime", "end_time", "EndTime", "end", "End">>
RoomKeys == <<"roomName", "room_name", "RoomName", "room", "Room", "location">>

HasKey(obj, keys) == \E i \in 1..Len(keys) : keys[i] \in DOMAIN obj

FirstKey(obj, keys) ==
    keys[CHOOSE i \in 1..Len(keys) :
            keys[i] \in DOMAIN obj /\ \A j \in 1..(i - 1) : keys[j] \notin DOMAIN obj]

TimeOfDay(text, day) ==
    parse_time_string(text, day * MinutesPerDay).dt - day * MinutesPerDay

\* The objects the claim speaks of: no start key at all, or a parsable
\* first start with either no end key or a parsable first end
Covered(it) ==
    /\ it.isdict
    /\ HasKey(it.obj, StartKeys) =>
          /\ parse_time_string(it.obj[FirstKey(it.obj, StartKeys)], 0).ok
          /\ HasKey(it.obj, EndKeys) =>
                parse_time_string(it.obj[FirstKey(it.obj, EndKeys)], 0).ok

ExpectedOfItem(it, day) ==
    IF ~HasKey(it.obj, StartKeys) THEN <<>>
    ELSE LET start == TimeOfDay(it.obj[FirstKey(it.obj, StartKeys)], day)
             room == IF HasKey(it.obj, RoomKeys)
                     THEN it.obj[FirstKey(it.obj, RoomKeys)] ELSE "Unknown"
         IN  IF HasKey(it.obj, EndKeys)
             THEN << [start_time |-> start,
                      end_time |-> TimeOfDay(it.obj[FirstKey(it.obj, EndKeys)], day),
                      room_name |-> room, one_hour |-> FALSE] >>
             ELSE << [start_time |-> start,
                      end_time |-> (start + MinutesPerHour) % MinutesPerDay,
                      room_name |-> room, one_hour |-> TRUE] >>

Seen(r, one_hour) ==
    [start_time |-> r.start_time, end_time |-> r.end_time, room_name |-> r.room_name,
     one_hour |-> one_hour]

OneValidBlock ==
    /\ pc = "extracted"
    /\ ~html.empty
    /\ Len(html.scripts) = 1
    /\ html.scripts[1].valid
    /\ \A i \in 1..Len(html.scripts[1].items) : Covered(html.scripts[1].items[i])

C14_JsonObjects ==
    OneValidBlock =>
        LET items == html.scripts[1].items
            expected == Flatten([i \in 1..Len(items) |-> ExpectedOfItem(items[i], date)])
        IN  /\ Len(JsonOut) = Len(expected)
            /\ \A k \in 1..Len(expected) :
                  /\ Seen(JsonOut[k], expected[k].one_hour) = expected[k]
                  /\ expected[k].one_hour => JsonOut[k].duration_hours = 100

\* An object with two start keys of different values and no end key, whose
\* record starts at the value of the first
C14_Witness ==
    /\ OneValidBlock
    /\ LET obj == html.scripts[1].items[1].obj
       IN  /\ DOMAIN obj = {"startTime", "start_time"}
           /\ obj["startTime"] # obj["start_time"]
    /\ Len(JsonOut) >= 1
    /\ JsonOut[1].start_time = 10 * MinutesPerHour
    /\ JsonOut[1].end_time = 11 * MinutesPerHour
    /\ JsonOut[1].duration_hours = 100

\* C15: within one call no detected event is emitted twice by one
\* strategy: the html_element records are as many as the elements that
\* match a selector and carry a time range that parses.
ElemOut == SelectSeq(out.records, LAMBDA r : r.source = "html_element")

DetectedElements ==
    {i \in 1..Len(html.elements) :
        /\ html.elements[i].cls \/ html.elements[i].dtype
        /\ extract_from_element(html.elements[i], date * MinutesPerDay) # <<>>}

C15_OneRecordPerElement ==
    (pc = "extracted" /\ ~html.empty /\ ~out.raised) =>
        Len(ElemOut) = Cardinality(DetectedElements)


====
